---------------------------- MODULE Spec2Model ----------------------------
(***************************************************************************)
(* A model of the linter of src/linter.py: the Sets, Imports, Naming,      *)
(* VariableScopeUsage and Variable rules and the Linter that drives them.  *)
(*                                                                         *)
(* Python strings are modelled as sequences of one-character strings, so   *)
(* that indexing, joining and re-parsing are computed character by         *)
(* character.  An optional value (None or a value) is the empty sequence   *)
(* or a one-element sequence.                                               *)
(***************************************************************************)
EXTENDS Integers, Sequences, FiniteSets, TLC

VARIABLES
  rules,      \* Linter.rules: the sequence of registered rule instances
  exc,        \* rule instance -> its .exceptions set
  index,      \* Imports.index
  unused,     \* VariableScopeUsage.unused  (identifier -> bool)
  names,      \* VariableScopeUsage.names   (identifier -> first Store node)
  input,      \* the node / tree / sighting handed to the last call
  raised,     \* the Python exception that left the last call ("none": it returned)
  added,      \* the diagnostics the last call passed to exceptions.add
  printed,    \* what the last Linter.run printed: <<rule, exceptions>> per rule
  calls,      \* number of calls made so far
  trace,      \* history: the Name nodes fed to the VariableScopeUsage so far
  version     \* sys.version_info[:2] of the interpreter that runs the linter

vars == <<rules, exc, index, unused, names, input, raised, added, printed, calls,
          trace, version>>

----------------------------------------------------------------------------
(* Bounds of the model.                                                    *)

MaxElts == 3        \* elements of a set literal
MaxTupleLen == 2    \* elements of a tuple literal inside a set literal
MaxDepth == 2       \* nesting of tuple literals inside a set literal
MaxSize == 6        \* AST nodes below a set literal
MaxLine == 6        \* source lines of a file
MaxCalls == 3       \* calls of a handler in one behaviour
MaxNameLine == 2    \* source lines of the Name nodes of a scope
MaxBody == 2        \* Name nodes in the body of a scope
MaxArgs == 2        \* positional parameters of a function
MaxStmts == 2       \* statements of a source file
MaxRuns == 2        \* calls of Linter.run on one Linter
Gap == 4            \* lines from one statement of a source file to the next

----------------------------------------------------------------------------
(* Strings.                                                                *)

None == <<>>
Some(v) == <<v>>

Digits == <<"0", "1", "2", "3", "4", "5", "6", "7", "8", "9">>

\* c in string.digits, for a one-character c
IsDigit(c) == \E d \in 1..Len(Digits) : Digits[d] = c

AsciiLower == {"a", "b", "c", "d", "e", "f", "g", "h", "i", "j", "k", "l", "m",
               "n", "o", "p", "q", "r", "s", "t", "u", "v", "w", "x", "y", "z"}

AsciiUpper == {"A", "B", "C", "D", "E", "F", "G", "H", "I", "J", "K", "L", "M",
               "N", "O", "P", "Q", "R", "S", "T", "U", "V", "W", "X", "Y", "Z"}

\* a character that may start a Python identifier
IsLetter(c) == c \in AsciiLower \cup AsciiUpper \cup {"_"}

Whitespace == {" ", "\n", "\t"}

RECURSIVE Strip(_)
\* s.strip()
Strip(s) ==
  IF s = <<>> THEN s
  ELSE IF Head(s) \in Whitespace THEN Strip(Tail(s))
  ELSE IF s[Len(s)] \in Whitespace THEN Strip(SubSeq(s, 1, Len(s) - 1))
  ELSE s

RECURSIVE Join(_)
\* ''.join(parts)
Join(parts) ==
  IF parts = <<>> THEN <<>> ELSE Head(parts) \o Join(Tail(parts))

RECURSIVE JoinWith(_, _)
\* sep.join(parts)
JoinWith(sep, parts) ==
  IF parts = <<>> THEN <<>>
  ELSE IF Len(parts) = 1 THEN Head(parts)
  ELSE Head(parts) \o sep \o JoinWith(sep, Tail(parts))

RECURSIVE StrNat(_)
\* str(n) for an int n >= 0
StrNat(n) ==
  IF n < 10 THEN <<Digits[n + 1]>>
  ELSE StrNat(n \div 10) \o <<Digits[(n % 10) + 1]>>

\* Python constant values: <<"int", n>>, <<"bool", 0 or 1>>, <<"NoneType", 0>>
PyInt(n) == <<"int", n>>
PyTrue == <<"bool", 1>>
PyNone == <<"NoneType", 0>>

\* str(value)
PyStr(v) ==
  CASE v[1] = "int" -> StrNat(v[2])
    [] v[1] = "bool" -> IF v[2] = 1 THEN <<"T", "r", "u", "e">>
                        ELSE <<"F", "a", "l", "s", "e">>
    [] OTHER -> <<"N", "o", "n", "e">>

----------------------------------------------------------------------------
(* AST nodes.                                                              *)

Constant(v) == <<"Constant", v>>
Tuple(elts) == <<"Tuple", elts>>
Name(id, ctx, lineno) == <<"Name", id, ctx, lineno>>

\* The record type class Exception(NamedTuple): line, txt, msg, expl
Exception(line, txt, msg, expl) ==
  [line |-> line, txt |-> txt, msg |-> msg, expl |-> expl]

----------------------------------------------------------------------------
(* Sets: extract and delimit.                                              *)

RECURSIVE extract(_)
\* extract(elts, res) with res = []: the list of strings appended to res
extract(elts) ==
  LET Of(elem) ==
        CASE elem[1] = "Tuple" -> <<(<<"(">>)>> \o extract(elem[2]) \o <<(<<")">>)>>
          [] elem[1] = "Constant" -> <<PyStr(elem[2])>>
          [] OTHER -> <<>>
  IN  IF elts = <<>> THEN <<>> ELSE Of(Head(elts)) \o extract(Tail(elts))

\* delimit(res), res a string: the list of strings, or the IndexError of res[-1]
delimit(res) ==
  IF res = <<>> THEN [raised |-> "IndexError", value |-> <<>>]
  ELSE [raised |-> "none",
        value |-> <<(<<"{">>)>>
                  \o [i \in 1..(Len(res) - 1) |->
                        IF (IsDigit(res[i]) /\ IsDigit(res[i + 1])) \/ res[i] = ")"
                        THEN <<res[i], ",", " ">>
                        ELSE <<res[i]>>]
                  \o <<(<<res[Len(res)]>>)>>
                  \o <<(<<"}">>)>>]

----------------------------------------------------------------------------
(* ast.literal_eval on the text delimit produces: the tokens, the parse    *)
(* of a Python display and its conversion to a value.  A token is          *)
(* <<"num", n>>, <<"name", chars>> or <<"op", c>>.                         *)

RECURSIVE DigitRunEnd(_, _)
\* the index after the run of digits that starts at i
DigitRunEnd(s, i) ==
  IF i <= Len(s) /\ IsDigit(s[i]) THEN DigitRunEnd(s, i + 1) ELSE i

RECURSIVE NameRunEnd(_, _)
\* the index after the run of letters and digits that starts at i
NameRunEnd(s, i) ==
  IF i <= Len(s) /\ (IsLetter(s[i]) \/ IsDigit(s[i])) THEN NameRunEnd(s, i + 1) ELSE i

DigitValue(c) == (CHOOSE d \in 1..Len(Digits) : Digits[d] = c) - 1

RECURSIVE NatOf(_)
\* int(digits)
NatOf(ds) ==
  IF ds = <<>> THEN 0
  ELSE 10 * NatOf(SubSeq(ds, 1, Len(ds) - 1)) + DigitValue(ds[Len(ds)])

RECURSIVE Tokenize(_, _)
\* the tokens of s from index i on, or a SyntaxError
Tokenize(s, i) ==
  LET Then(tok, rest) == [raised |-> rest.raised, toks |-> <<tok>> \o rest.toks]
      Number(j, ds) ==
        IF j <= Len(s) /\ IsLetter(s[j])
        THEN [raised |-> "SyntaxError", toks |-> <<>>]    \* invalid decimal literal
        ELSE IF Len(ds) > 1 /\ ds[1] = "0" /\ NatOf(ds) # 0
        THEN [raised |-> "SyntaxError", toks |-> <<>>]    \* leading zeros
        ELSE Then(<<"num", NatOf(ds)>>, Tokenize(s, j))
      Identifier(j) == Then(<<"name", SubSeq(s, i, j - 1)>>, Tokenize(s, j))
      NumberTo(j) == Number(j, SubSeq(s, i, j - 1))
  IN  IF i > Len(s) THEN [raised |-> "none", toks |-> <<>>]
      ELSE IF s[i] = " " THEN Tokenize(s, i + 1)
      ELSE IF IsDigit(s[i]) THEN NumberTo(DigitRunEnd(s, i))
      ELSE IF IsLetter(s[i]) THEN Identifier(NameRunEnd(s, i))
      ELSE Then(<<"op", s[i]>>, Tokenize(s, i + 1))

IsOp(toks, i, c) == i <= Len(toks) /\ toks[i][1] = "op" /\ toks[i][2] = c

SyntaxErrorAt(i) == [raised |-> "SyntaxError", pos |-> i, node |-> <<"Error">>]

RECURSIVE ParseExpr(_, _)
RECURSIVE ParseItems(_, _, _, _)
RECURSIVE ParseTrailers(_, _, _)

\* expressions separated by commas up to the closing token, a trailing comma
\* allowed: node is <<"Items", the expressions, number of commas>>
ParseItems(toks, i, close, acc) ==
  LET After(e) ==
        IF e.raised # "none" THEN e
        ELSE IF IsOp(toks, e.pos, ",")
        THEN ParseItems(toks, e.pos + 1, close, <<Append(acc[1], e.node), acc[2] + 1>>)
        ELSE IF IsOp(toks, e.pos, close)
        THEN [raised |-> "none", pos |-> e.pos + 1,
              node |-> <<"Items", Append(acc[1], e.node), acc[2]>>]
        ELSE SyntaxErrorAt(e.pos)
  IN  IF IsOp(toks, i, close)
      THEN [raised |-> "none", pos |-> i + 1, node |-> <<"Items", acc[1], acc[2]>>]
      ELSE After(ParseExpr(toks, i))

\* the calls that follow a primary: f(...) is an ast.Call
ParseTrailers(toks, i, node) ==
  LET Called(args) ==
        IF args.raised # "none" THEN args
        ELSE ParseTrailers(toks, args.pos, <<"Call">>)
  IN  IF IsOp(toks, i, "(")
      THEN Called(ParseItems(toks, i + 1, ")", <<(<<>>), 0>>))
      ELSE [raised |-> "none", pos |-> i, node |-> node]

\* one expression: a number, a name, a parenthesised expression or a tuple,
\* followed by its calls
ParseExpr(toks, i) ==
  LET Parenthesised(items) ==
        IF items.raised # "none" THEN items
        ELSE ParseTrailers(toks, items.pos,
                           IF Len(items.node[2]) = 1 /\ items.node[3] = 0
                           THEN items.node[2][1]                 \* (e) is e
                           ELSE <<"Tup", items.node[2]>>)
      Primary(kind, value) ==
        CASE kind = "num" -> ParseTrailers(toks, i + 1, <<"Num", value>>)
          [] kind = "name" -> ParseTrailers(toks, i + 1, <<"Ident", value>>)
          [] kind = "op" /\ value = "(" ->
               Parenthesised(ParseItems(toks, i + 1, ")", <<(<<>>), 0>>))
          [] OTHER -> SyntaxErrorAt(i)
  IN  IF i > Len(toks) THEN SyntaxErrorAt(i) ELSE Primary(toks[i][1], toks[i][2])

\* ast.parse(text, mode='eval') of a text that starts with "{": the elements
\* of the set display ("{}" is the empty dict)
ParseDisplay(text) ==
  LET Display(toks, items) ==
        IF items.raised # "none" THEN [raised |-> items.raised, elts |-> <<>>]
        ELSE IF items.pos # Len(toks) + 1 \/ (items.node[2] = <<>> /\ items.node[3] > 0)
        THEN [raised |-> "SyntaxError", elts |-> <<>>]
        ELSE [raised |-> "none", elts |-> items.node[2]]
      Parse(t) ==
        IF t.raised # "none" THEN [raised |-> t.raised, elts |-> <<>>]
        ELSE IF ~IsOp(t.toks, 1, "{") THEN [raised |-> "SyntaxError", elts |-> <<>>]
        ELSE Display(t.toks, ParseItems(t.toks, 2, "}", <<(<<>>), 0>>))
  IN  Parse(Tokenize(text, 1))

RECURSIVE Convertible(_)
\* literal_eval's _convert accepts the node: no Name other than True, False
\* and None, and no Call
Convertible(node) ==
  CASE node[1] = "Num" -> TRUE
    [] node[1] = "Ident" -> node[2] \in {PyStr(PyTrue), PyStr(<<"bool", 0>>), PyStr(PyNone)}
    [] node[1] = "Tup" -> \A k \in 1..Len(node[2]) : Convertible(node[2][k])
    [] OTHER -> FALSE

RECURSIVE Convert(_)
\* the value of a convertible node, up to Python's == and hash: True is 1 and
\* False is 0; a tuple is the sequence of its values
Convert(node) ==
  CASE node[1] = "Num" -> <<"num", node[2]>>
    [] node[1] = "Ident" ->
         IF node[2] = PyStr(PyTrue) THEN <<"num", 1>>
         ELSE IF node[2] = PyStr(<<"bool", 0>>) THEN <<"num", 0>>
         ELSE <<"none", 0>>
    [] OTHER -> <<"tuple", [k \in 1..Len(node[2]) |-> Convert(node[2][k])]>>

\* ast.literal_eval(text): the set of values, or the exception raised
literal_eval(text) ==
  LET ConvertParsed(p) ==
        IF p.raised # "none" THEN [raised |-> p.raised, value |-> {}]
        ELSE IF \E k \in 1..Len(p.elts) : ~Convertible(p.elts[k])
        THEN [raised |-> "ValueError", value |-> {}]
        ELSE [raised |-> "none", value |-> {Convert(p.elts[k]) : k \in 1..Len(p.elts)}]
  IN  ConvertParsed(ParseDisplay(text))

----------------------------------------------------------------------------
(* Sets.visit_Set.                                                         *)

SetMsg == "Set contains duplicate elements"
SetExpl == "Set may not explicitly be defined with duplicate elements"

\* A Set node: its elts and its lineno
SetNode(elts, lineno) == [kind |-> "Set", elts |-> elts, lineno |-> lineno]

\* The outcome of Sets.visit_Set(node): the exception raised ("none" when the
\* visit returns) and the diagnostics added
visit_Set(node) ==
  LET Compare(final, ev) ==
        IF ev.raised # "none" THEN [raised |-> ev.raised, add |-> {}]
        ELSE IF Len(node.elts) # Cardinality(ev.value)
        THEN [raised |-> "none",
              add |-> {Exception(Some(node.lineno), Some(final), SetMsg, SetExpl)}]
        ELSE [raised |-> "none", add |-> {}]
      Evaluate(final) == Compare(final, literal_eval(final))
      Delimited(d) ==
        IF d.raised # "none" THEN [raised |-> d.raised, add |-> {}]
        ELSE Evaluate(Join(d.value))
  IN  Delimited(delimit(Join(extract(node.elts))))

----------------------------------------------------------------------------
(* Imports.                                                                *)

SpacingMsg == "Import statements are spread out too much"
SpacingExpl == "Declare imports at the top of every file"
MultiMsg == "Import more than one module on a single line"
MultiExpl == "Have only one import per line"

\* The value Imports.__init__ gives self.index
ImportsInitIndex == -1

\* An alias of an Import node: name and asname
Alias(name, asname) == [name |-> name, asname |-> asname]

\* An Import node: its names (aliases) and its lineno
ImportNode(aliases, lineno) == [kind |-> "Import", names |-> aliases, lineno |-> lineno]

SpacingDiag == Exception(None, None, SpacingMsg, SpacingExpl)

\* visit_Import with the comparison 3 <= gap in place of 3 < gap
visit_ImportOffByOne(idx, node) ==
  [raised |-> "none",
   index |-> node.lineno,
   add |-> (IF idx < node.lineno /\ 3 <= node.lineno - idx THEN {SpacingDiag} ELSE {})
           \cup
           (IF 1 < Len(node.names)
            THEN {Exception(Some(node.lineno),
                            Some(<<"i", "m", "p", "o", "r", "t", " ">>
                                 \o JoinWith(<<",", " ">>,
                                             [k \in 1..Len(node.names) |-> node.names[k].name])),
                            MultiMsg, MultiExpl)}
            ELSE {})]

\* The outcome of Imports.visit_Import(node) when self.index is idx: the new
\* self.index and the diagnostics added
visit_Import(idx, node) ==
  [raised |-> "none",
   index |-> node.lineno,
   add |-> (IF idx < node.lineno /\ 3 < node.lineno - idx THEN {SpacingDiag} ELSE {})
           \cup
           (IF 1 < Len(node.names)
            THEN {Exception(Some(node.lineno),
                            Some(<<"i", "m", "p", "o", "r", "t", " ">>
                                 \o JoinWith(<<",", " ">>,
                                             [k \in 1..Len(node.names) |-> node.names[k].name])),
                            MultiMsg, MultiExpl)}
            ELSE {})]

----------------------------------------------------------------------------
(* VariableScopeUsage and Variable.                                        *)

\* The identifiers of the model
Idents == {<<"x">>, <<"b">>}

\* The contexts of a Name node: ast.Store, ast.Load, ast.Del
Contexts == {"Store", "Load", "Del"}

\* The two empty Counters of VariableScopeUsage.__init__; a key that is not
\* in the Counter maps to None
EmptyCounter == [id \in Idents |-> None]

\* visit_Name that lets a Store after a Load mark the identifier unused again
ScopeVisitNameStoreResets(st, node) ==
  IF node[3] = "Store"
  THEN [names |-> IF st.names[node[2]] = None
                  THEN [st.names EXCEPT ![node[2]] = Some(node)]
                  ELSE st.names,
        unused |-> [st.unused EXCEPT ![node[2]] = Some(TRUE)]]
  ELSE [names |-> st.names,
        unused |-> [st.unused EXCEPT ![node[2]] = Some(FALSE)]]

\* VariableScopeUsage.visit_Name(node) on the Counters st.names and st.unused
ScopeVisitName(st, node) ==
  IF node[3] = "Store"
  THEN [names |-> IF st.names[node[2]] = None
                  THEN [st.names EXCEPT ![node[2]] = Some(node)]
                  ELSE st.names,
        unused |-> IF st.unused[node[2]] = None
                   THEN [st.unused EXCEPT ![node[2]] = Some(TRUE)]
                   ELSE st.unused]
  ELSE [names |-> st.names,
        unused |-> [st.unused EXCEPT ![node[2]] = Some(FALSE)]]

RECURSIVE ScopeVisitAll(_, _)
\* VariableScopeUsage.visit(node): visit_Name on each Name node of the subtree,
\* in traversal order
ScopeVisitAll(st, sightings) ==
  IF sightings = <<>> THEN st
  ELSE ScopeVisitAll(ScopeVisitName(st, Head(sightings)), Tail(sightings))

\* A Module, FunctionDef or ClassDef node: the Name nodes of its own body, in
\* source order, then the function and class definitions nested in it
ScopeNode(kind, body, children, lineno) ==
  [kind |-> kind, body |-> body, children |-> children, lineno |-> lineno]

RECURSIVE SubtreeNames(_)
RECURSIVE SubtreeNamesOfAll(_)
\* The Name nodes of the subtree of a scope node, in traversal order
SubtreeNames(node) == node.body \o SubtreeNamesOfAll(node.children)

SubtreeNamesOfAll(nodes) ==
  IF nodes = <<>> THEN <<>>
  ELSE SubtreeNames(Head(nodes)) \o SubtreeNamesOfAll(Tail(nodes))

\* Variable.lint_variables(node): the Exception(line=..., text=..., ...) call
\* it makes for the first unused name has no field text and raises TypeError
lint_variables(node) ==
  LET Report(visitor) ==
        IF \E id \in Idents : visitor.unused[id] = Some(TRUE)
        THEN [raised |-> "TypeError", add |-> {}]
        ELSE [raised |-> "none", add |-> {}]
  IN  Report(ScopeVisitAll([names |-> EmptyCounter, unused |-> EmptyCounter],
                           SubtreeNames(node)))

RECURSIVE VariableVisit(_)
RECURSIVE VariableVisitAll(_)
\* Variable.visit_Module / visit_FunctionDef / visit_ClassDef (node):
\* lint_variables(node), then generic_visit(node), which visits the nested
\* definitions
VariableVisit(node) ==
  LET Both(here, below) == [raised |-> below.raised, add |-> here.add \cup below.add]
      Below(here) ==
        IF here.raised # "none" THEN here
        ELSE Both(here, VariableVisitAll(node.children))
  IN  Below(lint_variables(node))

VariableVisitAll(nodes) ==
  LET Both(first, rest) == [raised |-> rest.raised, add |-> first.add \cup rest.add]
      Rest(first) ==
        IF first.raised # "none" THEN first
        ELSE Both(first, VariableVisitAll(Tail(nodes)))
  IN  IF nodes = <<>> THEN [raised |-> "none", add |-> {}]
      ELSE Rest(VariableVisit(Head(nodes)))

----------------------------------------------------------------------------
(* Naming.                                                                 *)

\* The characters of the second alternative of Naming.VAR_STYLE
StylePunct == {"@", "!", "#", "$", "%", "^", "&", "*", "(", ")", "<", ">", "?",
               "/", "|", "}", "{", "~", ":"}

\* re.search(self.VAR_STYLE, s) finds a match
MatchesVarStyle(s) == \E i \in 1..Len(s) : s[i] \in AsciiUpper \cup StylePunct

\* re.search(self.PACKAGE_STYLE, s) finds a match
MatchesPackageStyle(s) ==
  \E i \in 1..Len(s) : s[i] \in AsciiUpper \cup StylePunct \cup {"_"} \/ IsDigit(s[i])

ArgsMsg == "Function arguments do not follow PEP8 Standards"
ArgsExpl == "Review PEP8 style for argument definition"
AliasMsg == "Alias name does not follow PEP8 Standards"
AliasExpl == "Review PEP8 style for module importing"

\* A FunctionDef node: name, args.args (the names), args.defaults (the nodes)
\* and lineno
FunctionDef(name, args, defaults, lineno) ==
  [kind |-> "FunctionDef", name |-> name, args |-> args, defaults |-> defaults,
   lineno |-> lineno]

\* node.value exists: of the nodes of the model, a Constant has the attribute
\* and a Name has not
HasValue(node) == node[1] = "Constant"

\* self.default_expression.format(variable=..., value=...)
default_expression(variable, value) == variable \o <<"=">> \o value

\* The outcome of Naming.lint_args(node)
lint_args(node) ==
  LET arguments == node.args
      defaults == node.defaults
      offset == Len(arguments) - Len(defaults)
      text == [k \in 1..Len(arguments) |->
                 IF k - 1 < offset THEN arguments[k]
                 ELSE default_expression(arguments[k],
                                         PyStr(defaults[k - offset][2]))]
      statement == JoinWith(<<",", " ">>, text)
  IN  IF ~\E k \in 1..Len(arguments) : MatchesVarStyle(arguments[k])
      THEN [raised |-> "none", add |-> {}]
      ELSE IF \E k \in 1..Len(arguments) :
                 k - 1 >= offset /\ ~HasValue(defaults[k - offset])
      THEN [raised |-> "AttributeError", add |-> {}]
      ELSE [raised |-> "none",
            add |-> {Exception(Some(node.lineno),
                               Some(node.name \o <<"(">> \o statement \o <<")">>),
                               ArgsMsg, ArgsExpl)}]

\* The outcome of Naming.visit_Import(node)
NamingVisitImport(node) ==
  IF Len(node.names) = 1 /\ node.names[1].asname # None
     /\ node.names[1].asname # Some(<<>>)
     /\ MatchesPackageStyle(node.names[1].asname[1])
  THEN [raised |-> "none",
        add |-> {Exception(Some(node.lineno),
                           Some(<<"i", "m", "p", "o", "r", "t", " ">> \o node.names[1].asname[1]),
                           AliasMsg, AliasExpl)}]
  ELSE [raised |-> "none", add |-> {}]

----------------------------------------------------------------------------
(* Linter.                                                                 *)

\* The rule instances: one of each rule class, and Linter.internal, a Rule
Instances == {"sets", "naming", "imports", "variable", "internal"}

\* self.rules after Linter.__init__
LinterInitRules == <<"sets">>

\* Rule.__init__ of every instance: self.exceptions = set()
NoExceptions == [r \in Instances |-> {}]

WidthMsg == "Line width exceeds 80 characters"
WidthExpl == "You may not have a line of code longer than 80 characters."

\* lint_lines flags a line when WidthLimit < len(line)
WidthLimit == 79

\* lint_lines keeps the first SnippetLen characters of a flagged line
SnippetLen == 60

\* The first minor version of Python 3 for which lint_version adds nothing
ModernMinor == 9

\* A source file: its lines, each with its line break, and the statements
\* ast.parse finds in it (Set and Import nodes, in source order)
SourceFile(lines, body) == [lines |-> lines, body |-> body]

\* Linter.lint_version: both Exception(msg=..., txt=...) calls leave out the
\* fields line and expl, which have no default, and raise TypeError
lint_version(ver) ==
  IF ver[1] < 3 \/ ver[2] < ModernMinor
  THEN [raised |-> "TypeError", add |-> {}]
  ELSE [raised |-> "none", add |-> {}]

\* Linter.lint_lines: the diagnostics added to self.internal.exceptions
lint_lines(lines) ==
  {Exception(Some(no),
             Some(Strip(SubSeq(lines[no], 1, SnippetLen)) \o <<".", ".", ".">>),
             WidthMsg, WidthExpl) :
     no \in {n \in 1..Len(lines) : WidthLimit < Len(lines[n])}}

RECURSIVE NamesIn(_)
\* The Name nodes among the elements of a set or tuple literal, in order
NamesIn(elts) ==
  IF elts = <<>> THEN <<>>
  ELSE LET elem == Head(elts)
       IN  (CASE elem[1] = "Name" -> <<elem>>
              [] elem[1] = "Tuple" -> NamesIn(elem[2])
              [] OTHER -> <<>>) \o NamesIn(Tail(elts))

RECURSIVE BodyNames(_)
\* The Name nodes of the statements of a module, in traversal order
BodyNames(body) ==
  IF body = <<>> THEN <<>>
  ELSE (IF Head(body).kind = "Set" THEN NamesIn(Head(body).elts) ELSE <<>>)
       \o BodyNames(Tail(body))

\* What visiting one statement does to a rule instance: st holds the
\* instance's exceptions (exc) and Imports.index (index)
VisitStatement(rule, st, node) ==
  LET Adds(r) == [raised |-> r.raised, exc |-> st.exc \cup r.add, index |-> st.index]
      Moves(r) == [raised |-> r.raised, exc |-> st.exc \cup r.add, index |-> r.index]
  IN  CASE rule = "sets" /\ node.kind = "Set" -> Adds(visit_Set(node))
        [] rule = "imports" /\ node.kind = "Import" -> Moves(visit_Import(st.index, node))
        [] rule = "naming" /\ node.kind = "Import" -> Adds(NamingVisitImport(node))
        [] OTHER -> [raised |-> "none", exc |-> st.exc, index |-> st.index]

RECURSIVE VisitBody(_, _, _)
\* generic_visit over the statements of the module: a handler that raises
\* ends the traversal
VisitBody(rule, st, body) ==
  LET Next(r) == IF r.raised # "none" THEN r ELSE VisitBody(rule, r, Tail(body))
  IN  IF body = <<>> THEN [raised |-> "none", exc |-> st.exc, index |-> st.index]
      ELSE Next(VisitStatement(rule, st, Head(body)))

\* rule.visit(tree)
RuleVisit(rule, st, body) ==
  LET Module(r) ==
        IF r.raised # "none"
        THEN [raised |-> r.raised, exc |-> st.exc, index |-> st.index]
        ELSE VisitBody(rule, [exc |-> st.exc \cup r.add, index |-> st.index], body)
  IN  IF rule = "variable"
      THEN Module(VariableVisit(ScopeNode("Module", BodyNames(body), <<>>, 0)))
      ELSE VisitBody(rule, st, body)

\* The linter after self.rules[k] visited the tree and was printed, or raised
RunRule(l, k, body) ==
  LET Visited(rule, r) ==
        IF r.raised # "none"
        THEN [l EXCEPT !.exc[rule] = r.exc, !.index = r.index, !.raised = r.raised]
        ELSE [l EXCEPT !.exc[rule] = r.exc, !.index = r.index,
                       !.printed = Append(@, <<rule, r.exc>>)]
      Visit(rule) ==
        Visited(rule, RuleVisit(rule, [exc |-> l.exc[rule], index |-> l.index], body))
  IN  Visit(l.rules[k])

RECURSIVE RunRules(_, _, _)
\* for rule in self.rules: rule.visit(tree); self.print_exception(...), from
\* the k-th rule on.  l holds rules, exc, index, what was printed so far and
\* the exception raised
RunRules(l, k, body) ==
  IF k > Len(l.rules) \/ l.raised # "none" THEN l
  ELSE RunRules(RunRule(l, k, body), k + 1, body)

\* The four concrete rules, in the order of their classes in the module
FourRules == <<"sets", "naming", "imports", "variable">>

\* Linter.run(source_path) on the linter l (rules, exc, index) under the
\* interpreter version ver: the linter afterwards, what was printed and the
\* exception that left run
run(l, ver, file) ==
  LET Checked(start, v) ==
        IF v.raised # "none" THEN [start EXCEPT !.raised = v.raised]
        ELSE RunRules([start EXCEPT !.exc["internal"] = @ \cup v.add
                                                          \cup lint_lines(file.lines),
                                    !.rules = Append(@, "internal")],
                      1, file.body)
  IN  Checked([rules |-> l.rules, exc |-> l.exc, index |-> l.index,
               printed |-> <<>>, raised |-> "none"],
              lint_version(ver))

----------------------------------------------------------------------------
(* The state after construction, shared by the specifications below: a     *)
(* Linter with its Sets rule and its internal Rule, and a fresh instance   *)
(* of every other rule class.                                              *)

Fresh ==
  /\ rules = LinterInitRules
  /\ exc = NoExceptions
  /\ index = ImportsInitIndex
  /\ unused = EmptyCounter
  /\ names = EmptyCounter
  /\ raised = "none"
  /\ added = {}
  /\ printed = <<>>
  /\ calls = 0
  /\ trace = <<>>

----------------------------------------------------------------------------
(* SpecSets: one Sets rule visits one Set node.                            *)

\* The scalar constants and the one non-literal element of the set and tuple
\* literals: 1, 2, 10, True and the name x
SetAtoms ==
  {Constant(PyInt(1)), Constant(PyInt(2)), Constant(PyInt(10)), Constant(PyTrue),
   Name(<<"x">>, "Load", 1)}

RECURSIVE TreesOf(_, _)
RECURSIVE ForestsOf(_, _, _)
\* The elements made of exactly size AST nodes, tuples nested at most depth
\* deep below them
TreesOf(size, depth) ==
  (IF size = 1 THEN SetAtoms ELSE {})
  \cup
  (IF depth > 0
   THEN {Tuple(f) : f \in UNION {ForestsOf(size - 1, len, depth - 1) : len \in 0..MaxTupleLen}}
   ELSE {})

\* The sequences of len elements made of exactly size AST nodes
ForestsOf(size, len, depth) ==
  IF len = 0 THEN (IF size = 0 THEN {<<>>} ELSE {})
  ELSE UNION {{<<t>> \o f : t \in TreesOf(first, depth),
                            f \in ForestsOf(size - first, len - 1, depth)} :
                first \in 1..size}

\* The Set nodes of at most maxSize AST nodes below them
SetNodes(maxSize) ==
  {SetNode(elts, 1) :
     elts \in UNION {ForestsOf(size, len, MaxDepth) : size \in 1..maxSize, len \in 1..MaxElts}}

SetsInit ==
  /\ Fresh
  /\ version = <<3, 11>>
  /\ input \in SetNodes(MaxSize)

\* Sets.visit_Set(input)
SetsVisit ==
  /\ calls = 0
  /\ \E r \in {visit_Set(input)} :
       /\ exc' = [exc EXCEPT !["sets"] = @ \cup r.add]
       /\ raised' = r.raised
       /\ added' = r.add
  /\ calls' = 1
  /\ UNCHANGED <<rules, index, unused, names, input, printed, trace, version>>

SpecSets == SetsInit /\ [][SetsVisit]_vars

RECURSIVE IsLiteral(_)
\* a scalar constant or an (arbitrarily nested) tuple of scalar constants
IsLiteral(elem) ==
  CASE elem[1] = "Constant" -> TRUE
    [] elem[1] = "Tuple" -> \A k \in 1..Len(elem[2]) : IsLiteral(elem[2][k])
    [] OTHER -> FALSE

RECURSIVE Canonical(_)
\* the canonical value of a literal element: a scalar by its value, whatever
\* its subtype (True is 1), a tuple by the canonical values of its elements,
\* in order
Canonical(elem) ==
  IF elem[1] = "Constant"
  THEN (IF elem[2][1] \in {"int", "bool"} THEN <<"num", elem[2][2]>> ELSE <<"none", 0>>)
  ELSE <<"tuple", [k \in 1..Len(elem[2]) |-> Canonical(elem[2][k])]>>

\* two of the literal elements of elts have equal canonical values
HasDuplicate(elts) ==
  \E i, j \in 1..Len(elts) :
    /\ i < j
    /\ IsLiteral(elts[i])
    /\ IsLiteral(elts[j])
    /\ Canonical(elts[i]) = Canonical(elts[j])

\* C1: for a set literal whose elements are all scalar constants or nested
\* tuples of scalar constants, visit_Set returns and emits the
\* duplicate-elements diagnostic if and only if two elements have equal
\* canonical values.
C1_DuplicateIffEqualCanonical ==
  (calls = 1 /\ \A k \in 1..Len(input.elts) : IsLiteral(input.elts[k]))
    => /\ raised = "none"
       /\ (added # {}) <=> HasDuplicate(input.elts)

\* C2: visit_Set ignores the elements that are no literal: on a set with such
\* an element it returns, it produces no diagnostic if no element is a
\* literal, and it produces one only if two literal elements are equal.
C2_NonLiteralIgnored ==
  (calls = 1 /\ \E k \in 1..Len(input.elts) : ~IsLiteral(input.elts[k]))
    => /\ raised = "none"
       /\ (\A k \in 1..Len(input.elts) : ~IsLiteral(input.elts[k])) => added = {}
       /\ (added # {}) => HasDuplicate(input.elts)

----------------------------------------------------------------------------
(* SpecImports: one Imports rule visits the Import nodes of a file in      *)
(* source order.                                                           *)

\* The names of one Import node: import a / import a, b
ImportNames == {<<Alias(<<"a">>, None)>>, <<Alias(<<"a">>, None), Alias(<<"b">>, None)>>}

ImportsInit ==
  /\ Fresh
  /\ version = <<3, 11>>
  /\ input = <<>>

\* Imports.visit_Import(node), node on or below the line of the last Import
\* node visited
ImportsVisit ==
  /\ calls < MaxCalls
  /\ \E aliases \in ImportNames, lineno \in 1..MaxLine :
       /\ calls > 0 => input.lineno <= lineno
       /\ \E r \in {visit_Import(index, ImportNode(aliases, lineno))} :
            /\ input' = ImportNode(aliases, lineno)
            /\ index' = r.index
            /\ exc' = [exc EXCEPT !["imports"] = @ \cup r.add]
            /\ raised' = r.raised
            /\ added' = r.add
  /\ calls' = calls + 1
  /\ UNCHANGED <<rules, unused, names, printed, trace, version>>

SpecImports == ImportsInit /\ [][ImportsVisit]_vars

\* C6: the first Import node a fresh Imports rule visits never produces the
\* spacing diagnostic, whatever its line.
C6_FirstImportNeverSpacing ==
  calls = 1 => SpacingDiag \notin exc["imports"]

\* C7: each Import node visited after the first adds the spacing diagnostic
\* if and only if it is more than 3 lines below the Import node visited
\* before it; the diagnostic carries no line number; after every visit the
\* remembered line is the line of the Import node just visited.
C7_SpacingIffGapOver3 ==
  [][calls' = calls + 1 =>
       /\ calls > 0 => ((SpacingDiag \in added') <=> (input'.lineno - input.lineno > 3))
       /\ \A e \in added' : e.msg = SpacingMsg => e.line = None
       /\ index' = input'.lineno]_vars

\* Witness of C7: a second Import node, more than 3 lines below the first,
\* has been visited and the spacing diagnostic was added for it.
C7_Witness ==
  /\ calls = 2
  /\ index - 3 > 1
  /\ SpacingDiag \in added
  /\ index = input.lineno

----------------------------------------------------------------------------
(* SpecScope: one VariableScopeUsage is fed Name nodes one after another.  *)

\* The Name nodes of the model
Sightings ==
  {Name(id, ctx, lineno) : id \in Idents, ctx \in Contexts, lineno \in 1..MaxNameLine}

ScopeInit ==
  /\ Fresh
  /\ version = <<3, 11>>
  /\ input = <<>>

\* VariableScopeUsage.visit_Name(node)
ScopeVisit ==
  /\ calls < MaxCalls
  /\ \E node \in Sightings :
       \E st \in {ScopeVisitName([names |-> names, unused |-> unused], node)} :
         /\ names' = st.names
         /\ unused' = st.unused
         /\ input' = node
         /\ trace' = Append(trace, node)
  /\ calls' = calls + 1
  /\ UNCHANGED <<rules, exc, index, raised, added, printed, version>>

SpecScope == ScopeInit /\ [][ScopeVisit]_vars

\* the positions of the sightings of id with one of the contexts ctxs
SightingsOf(seq, id, ctxs) == {k \in 1..Len(seq) : seq[k][2] = id /\ seq[k][3] \in ctxs}

\* the first Store sighting of id in seq
FirstStore(seq, id) ==
  seq[CHOOSE k \in SightingsOf(seq, id, {"Store"}) :
        \A m \in SightingsOf(seq, id, {"Store"}) : k <= m]

\* C9 as stated: an identifier ends flagged bound-but-never-read if and only
\* if the sightings hold at least one Store and no Load of it, in whatever
\* order, and the recorded binding site is the first Store sighting.
C9_FlaggedIffStoreAndNoLoad ==
  \A id \in Idents :
    /\ (unused[id] = Some(TRUE))
         <=> (SightingsOf(trace, id, {"Store"}) # {} /\ SightingsOf(trace, id, {"Load"}) = {})
    /\ SightingsOf(trace, id, {"Store"}) # {} => names[id] = Some(FirstStore(trace, id))

\* C9 amended: an identifier ends flagged bound-but-never-read if and only if
\* the sightings hold at least one Store and no sighting of it in another
\* context (Load or Del), in whatever order, and the recorded binding site is
\* the first Store sighting.
C9_FlaggedIffStoreAndOnlyStore ==
  \A id \in Idents :
    /\ (unused[id] = Some(TRUE))
         <=> (SightingsOf(trace, id, {"Store"}) # {}
              /\ SightingsOf(trace, id, {"Load", "Del"}) = {})
    /\ SightingsOf(trace, id, {"Store"}) # {} => names[id] = Some(FirstStore(trace, id))
    /\ SightingsOf(trace, id, {"Store"}) = {} => names[id] = None

\* Witness of C9: an identifier was read before it was bound, bound twice on
\* different lines, and ends used with the first binding recorded.
C9_Witness ==
  \E id \in Idents :
    /\ Len(trace) = 3
    /\ trace[1][2] = id /\ trace[1][3] = "Load"
    /\ trace[2][2] = id /\ trace[2][3] = "Store"
    /\ trace[3][2] = id /\ trace[3][3] = "Store" /\ trace[3][4] # trace[2][4]
    /\ unused[id] = Some(FALSE)
    /\ names[id] = Some(trace[2])

----------------------------------------------------------------------------
(* SpecVariable: one Variable rule visits one Module, FunctionDef or       *)
(* ClassDef node.                                                          *)

\* the sequences over S of length 0..n
SeqUpTo(S, n) == UNION {[1..m -> S] : m \in 0..n}

\* The scope nodes of the model: a body of at most maxBody Name nodes and at
\* most one nested function or class definition, which holds at most one
\* Name node
ScopeNodes(maxBody) ==
  {ScopeNode(kind, body, children, 1) :
     kind \in {"Module", "FunctionDef", "ClassDef"},
     body \in SeqUpTo(Sightings, maxBody),
     children \in {<<>>} \cup
                  {<<ScopeNode(k, b, <<>>, 2)>> :
                     k \in {"FunctionDef", "ClassDef"}, b \in SeqUpTo(Sightings, 1)}}

VariableInit ==
  /\ Fresh
  /\ version = <<3, 11>>
  /\ input \in ScopeNodes(MaxBody)

\* Variable.visit_Module / visit_FunctionDef / visit_ClassDef (input)
VariableVisitScope ==
  /\ calls = 0
  /\ \E r \in {VariableVisit(input)} :
       /\ exc' = [exc EXCEPT !["variable"] = @ \cup r.add]
       /\ raised' = r.raised
       /\ added' = r.add
  /\ calls' = 1
  /\ UNCHANGED <<rules, index, unused, names, input, printed, trace, version>>

SpecVariable == VariableInit /\ [][VariableVisitScope]_vars

UnusedMsg == "Unused variable"

\* the identifiers bound (Store) and never read (Load) in the subtree of node
BoundNeverRead(node) ==
  {id \in Idents : /\ SightingsOf(SubtreeNames(node), id, {"Store"}) # {}
                   /\ SightingsOf(SubtreeNames(node), id, {"Load"}) = {}}

\* the lines of the diagnostics the claim expects of the visit of node, which
\* visits the definitions nested in node too
ExpectedUnusedLines(node) ==
  UNION {{FirstStore(SubtreeNames(n), id)[4] : id \in BoundNeverRead(n)} :
           n \in {node} \cup {node.children[k] : k \in 1..Len(node.children)}}

\* C8: the visit of a Module, FunctionDef or ClassDef node finishes without
\* error and adds an 'unused variable' diagnostic, carrying the line of the
\* first binding site, for each identifier bound and never read in the
\* subtree, and none for any other identifier.
C8_UnusedVariableReported ==
  calls = 1
    => /\ raised = "none"
       /\ {e.line : e \in added} = {Some(l) : l \in ExpectedUnusedLines(input)}
       /\ \A e \in added : e.msg = UnusedMsg

----------------------------------------------------------------------------
(* SpecNaming: one Naming rule checks the arguments of one FunctionDef     *)
(* node.                                                                   *)

\* The parameter names of the model
ArgNames == {<<"a">>, <<"B">>, <<"x">>}

\* The default values of the model: 1, None and the name y
DefaultNodes == {Constant(PyInt(1)), Constant(PyNone), Name(<<"y">>, "Load", 1)}

\* The FunctionDef nodes of the model: def ok(<args>), the last parameters
\* with a default value
FunctionDefs ==
  {FunctionDef(<<"o", "k">>, args, defaults, 1) :
     args \in SeqUpTo(ArgNames, MaxArgs),
     defaults \in SeqUpTo(DefaultNodes, MaxArgs)}

NamingInit ==
  /\ Fresh
  /\ version = <<3, 11>>
  /\ input \in {f \in FunctionDefs : Len(f.defaults) <= Len(f.args)}

\* Naming.lint_args(input)
NamingLintArgs ==
  /\ calls = 0
  /\ \E r \in {lint_args(input)} :
       /\ exc' = [exc EXCEPT !["naming"] = @ \cup r.add]
       /\ raised' = r.raised
       /\ added' = r.add
  /\ calls' = 1
  /\ UNCHANGED <<rules, index, unused, names, input, printed, trace, version>>

SpecNaming == NamingInit /\ [][NamingLintArgs]_vars

\* the text of a default value: str(value) of a constant, the identifier of
\* a name
DefaultText(node) == IF node[1] = "Constant" THEN PyStr(node[2]) ELSE node[2]

\* the snippet the claim expects: every formal parameter in declaration
\* order, '=default' appended to exactly the parameters that have a default
ExpectedSnippet(node) ==
  LET offset == Len(node.args) - Len(node.defaults)
      positional == [k \in 1..Len(node.args) |->
                       IF k <= offset THEN node.args[k]
                       ELSE node.args[k] \o <<"=">> \o DefaultText(node.defaults[k - offset])]
  IN  node.name \o <<"(">> \o JoinWith(<<",", " ">>, positional) \o <<")">>

\* C10: lint_args completes, whatever the parameters and their default
\* values, and adds exactly one argument-naming diagnostic if a formal
\* parameter name matches the variable-disallowed pattern and none
\* otherwise; its snippet lists every formal parameter in declaration order
\* with its default.
C10_OneArgumentDiagnostic ==
  calls = 1
    => /\ raised = "none"
       /\ added =
            IF \E k \in 1..Len(input.args) : MatchesVarStyle(input.args[k])
            THEN {Exception(Some(input.lineno), Some(ExpectedSnippet(input)), ArgsMsg, ArgsExpl)}
            ELSE {}

----------------------------------------------------------------------------
(* SpecLinter: one Linter runs on one source file after another.           *)

\* A line of a source file that lint_lines passes, and one it flags
ShortLine == <<"#", "\n">>
LongLine == [k \in 1..WidthLimit |-> "#"] \o <<"\n">>

\* The statements of the source files: {1, 1}, {1, 2}, {x, x} and import a
Statements(lineno) ==
  {SetNode(<<Constant(PyInt(1)), Constant(PyInt(1))>>, lineno),
   SetNode(<<Constant(PyInt(1)), Constant(PyInt(2))>>, lineno),
   SetNode(<<Name(<<"x">>, "Load", lineno), Name(<<"x">>, "Load", lineno)>>, lineno),
   ImportNode(<<Alias(<<"a">>, None)>>, lineno)}

\* The line of the k-th statement of a source file: Gap lines apart
StatementLine(k) == Gap * (k - 1) + 1

\* The source files of the model: at most MaxStmts statements, then a last
\* line, a comment, that is short or long
SourceFiles ==
  {SourceFile([n \in 1..(StatementLine(Len(body)) + 1) |->
                 IF n = StatementLine(Len(body)) + 1 /\ long THEN LongLine ELSE ShortLine],
              body) :
     long \in BOOLEAN,
     body \in {b \in UNION {[1..m -> UNION {Statements(StatementLine(k)) : k \in 1..m}] :
                             m \in 1..MaxStmts} :
                 \A k \in 1..Len(b) : b[k].lineno = StatementLine(k)}}

\* The interpreters of the model: Python 3.8 and Python 3.11
Versions == {<<3, 8>>, <<3, 11>>}

LinterInit ==
  /\ Fresh
  /\ version \in Versions
  /\ input = <<>>

\* Linter.run(source_path), source_path a readable file of the model
LinterRun ==
  /\ calls < MaxRuns
  /\ \E file \in SourceFiles :
       \E r \in {run([rules |-> rules, exc |-> exc, index |-> index], version, file)} :
         /\ input' = file
         /\ rules' = r.rules
         /\ exc' = r.exc
         /\ index' = r.index
         /\ printed' = r.printed
         /\ raised' = r.raised
         /\ added' = UNION {r.exc[i] \ exc[i] : i \in Instances}
  /\ calls' = calls + 1
  /\ UNCHANGED <<unused, names, trace, version>>

SpecLinter == LinterInit /\ [][LinterRun]_vars

\* the rule instances among those printed
PrintedRules == {printed[k][1] : k \in 1..Len(printed)}

\* the diagnostics printed
PrintedDiagnostics == UNION {printed[k][2] : k \in 1..Len(printed)}

\* C3: a rule that raises while visiting a node does not abort the run: run
\* returns, and the diagnostics of every rule of the rule list are reported.
C3_RunSurvivesRuleFault ==
  (calls > 0 /\ version[2] >= ModernMinor)
    => /\ raised = "none"
       /\ \A k \in 1..Len(rules) : <<rules[k], exc[rules[k]]>> \in
                                     {printed[j] : j \in 1..Len(printed)}

\* the file holds two successive Import nodes more than 3 lines apart
ImportsSpreadOut(file) ==
  \E i, j \in 1..Len(file.body) :
    /\ i < j
    /\ file.body[i].kind = "Import" /\ file.body[j].kind = "Import"
    /\ \A m \in (i + 1)..(j - 1) : file.body[m].kind # "Import"
    /\ file.body[j].lineno - file.body[i].lineno > 3

\* C4: run traverses the tree with each of the four concrete rules, so that
\* a violation one of them detects (here: imports spread out) is among the
\* diagnostics the run reports.
C4_FourRulesTraverse ==
  (calls > 0 /\ raised = "none" /\ ImportsSpreadOut(input))
    => /\ \A r \in {FourRules[k] : k \in 1..Len(FourRules)} : r \in PrintedRules
       /\ SpacingDiag \in PrintedDiagnostics

\* a Linter as Linter.__init__ leaves it
FreshLinter == [rules |-> LinterInitRules, exc |-> NoExceptions, index |-> ImportsInitIndex]

\* C5: whatever ran before, a run reports exactly what a fresh Linter reports
\* for the same file, each rule once.
C5_NoLeakBetweenRuns ==
  (calls > 0 /\ raised = "none")
    => /\ printed = run(FreshLinter, version, input).printed
       /\ \A j, k \in 1..Len(printed) : j # k => printed[j][1] # printed[k][1]

============================================================================
